---- MODULE Spec2Model ----
(***************************************************************************)
(* A model of lutris/gui/config/boxes.py: ConfigBox, the form that is      *)
(* generated from a list of option descriptors over a layered              *)
(* configuration (raw_config: this level, config: the merged values).      *)
(*                                                                         *)
(* Widgets are records.  A Gtk widget carries the two flags the code       *)
(* drives: visible and no_show_all.  The children of the box ("tree") are  *)
(* section frames, option rows and other widgets (labels, banners).  The   *)
(* wrapper and the reset button that generate_widgets creates for one      *)
(* option are one entry of "ctrl"; the registries (wrappers,               *)
(* reset_buttons, warning_boxes, error_boxes) refer to entries of ctrl.    *)
(***************************************************************************)
EXTENDS Integers, Sequences, FiniteSets, TLC

\* Python's None, and the absent value of dict.get
None == "None"

(***************************************************************************)
(* Bounds of the exploration                                               *)
(***************************************************************************)
\* the longest option list a form is built from
MaxOptions == 3
\* the number of times generate_widgets is called on one instance
MaxRenders == 2
\* the number of operations of the user on the form: edits, resets and
\* changes of the filter or of the advanced switch
MaxOps == 2

Keys == {"a", "b", "c"}
Vals == {"v1", "v2"}
Levels == {"game", "runner", "system"}

(***************************************************************************)
(* Strings are sequences of characters; str.lower and the "in" operator    *)
(***************************************************************************)
LowerChar(ch) ==
    IF ch = "W" THEN "w" ELSE IF ch = "I" THEN "i" ELSE IF ch = "Z" THEN "z" ELSE ch

lower(s) == [i \in 1..Len(s) |-> LowerChar(s[i])]

\* Python's "sub in s" on strings
Contains(sub, s) ==
    \E i \in 0..(Len(s) - Len(sub)) : SubSeq(s, i + 1, i + Len(sub)) = sub

(***************************************************************************)
(* Dictionaries                                                            *)
(***************************************************************************)
Get(d, k) == IF k \in DOMAIN d THEN d[k] ELSE None

Put(d, k, v) == [x \in (DOMAIN d) \cup {k} |-> IF x = k THEN v ELSE d[x]]

Pop(d, k) == [x \in (DOMAIN d) \ {k} |-> d[x]]

EmptyDict == [x \in {} |-> None]

\* defaultdict(list)[k].append(p)
AppendTo(d, k, p) == Put(d, k, Append(IF k \in DOMAIN d THEN d[k] ELSE <<>>, p))

(***************************************************************************)
(* Widgets                                                                 *)
(***************************************************************************)
\* Gtk.Box(visible=True) holding one option: hbox or the vertical container
RowWidget(id, option) ==
    [kind |-> "row", section |-> None, id |-> id,
     key |-> option.option, label |-> option.label, help |-> option.help,
     advanced |-> option.advanced,
     visible |-> TRUE, no_show_all |-> FALSE, vbox |-> <<>>]

\* ConfigBox.SectionFrame(section): a Gtk.Frame, not visible until shown
SectionFrame(section) ==
    [kind |-> "frame", section |-> section, id |-> 0,
     key |-> None, label |-> <<>>, help |-> <<>>, advanced |-> FALSE,
     visible |-> FALSE, no_show_all |-> FALSE, vbox |-> <<>>]

\* a widget that is neither a frame nor an option row (label, banner)
OtherWidget(name) ==
    [kind |-> "other", section |-> name, id |-> 0,
     key |-> None, label |-> <<>>, help |-> <<>>, advanced |-> FALSE,
     visible |-> FALSE, no_show_all |-> FALSE, vbox |-> <<>>]

\* the widgets of a list and of its frames, depth first
RECURSIVE Flatten(_)
Flatten(widgets) ==
    IF widgets = <<>> THEN <<>>
    ELSE LET w == Head(widgets)
         IN  (IF w.kind = "frame" THEN <<w>> \o Flatten(w.vbox) ELSE <<w>>)
             \o Flatten(Tail(widgets))

\* the option rows of the box in display order
Rows(widgets) == SelectSeq(Flatten(widgets), LAMBDA w : w.kind = "row")

RowKeys(widgets) == [i \in 1..Len(Rows(widgets)) |-> Rows(widgets)[i].key]

(***************************************************************************)
(* Gtk.Widget.show_all: shows the widget and its descendants, stopping at  *)
(* a widget whose no_show_all flag is set                                  *)
(***************************************************************************)
RECURSIVE show_all(_)
show_all(widgets) ==
    [i \in 1..Len(widgets) |->
        IF widgets[i].no_show_all THEN widgets[i]
        ELSE [widgets[i] EXCEPT !.visible = TRUE, !.vbox = show_all(@)]]

\* the option rows a show_all of the list reaches
RECURSIVE ShowAllReached(_)
ShowAllReached(widgets) ==
    UNION {IF widgets[i].no_show_all THEN {}
           ELSE IF widgets[i].kind = "row" THEN {widgets[i].id}
           ELSE ShowAllReached(widgets[i].vbox) : i \in 1..Len(widgets)}

\* the reset buttons of the reached rows are shown unless they opted out
ShowButtons(c, reached) ==
    [i \in 1..Len(c) |->
        IF i \in reached /\ ~c[i].btn_no_show_all
        THEN [c[i] EXCEPT !.btn_visible = TRUE] ELSE c[i]]

(***************************************************************************)
(* update_option_visibility                                                *)
(***************************************************************************)
\* a variant that compares the label and the help text without lowering them
widget_visible_cased(w, adv, flt) ==
    LET filter_text == lower(flt)
        base == adv \/ ~w.advanced
    IN  IF base /\ filter_text # <<>> /\ w.kind = "row"
        THEN ~(~Contains(filter_text, w.label) /\ ~Contains(filter_text, w.help))
        ELSE base

\* lines 83-88: the visibility of a widget that is not a section frame
widget_visible(w, adv, flt) ==
    LET filter_text == lower(flt)
        base == adv \/ ~w.advanced
    IN  IF base /\ filter_text # <<>> /\ w.kind = "row"
        THEN ~(~Contains(filter_text, lower(w.label))
               /\ ~Contains(filter_text, lower(w.help)))
        ELSE base

\* lines 89-90
UpdateLeaf(w, adv, flt) ==
    LET v == widget_visible(w, adv, flt)
    IN  [w EXCEPT !.visible = v, !.no_show_all = ~v]

\* the count update_widgets returns for a list it has updated
RECURSIVE visible_count(_)
visible_count(widgets) ==
    IF widgets = <<>> THEN 0
    ELSE LET w == Head(widgets)
         IN  (IF w.kind = "frame" THEN visible_count(w.vbox)
              ELSE IF w.visible THEN 1 ELSE 0)
             + visible_count(Tail(widgets))

\* a variant that shows a frame whatever its count
FrameVisible_always(frame_visible_count) == frame_visible_count >= 0

\* line 81
FrameVisible(frame_visible_count) == frame_visible_count > 0

RECURSIVE update_widgets(_, _, _)
update_widgets(widgets, adv, flt) ==
    [i \in 1..Len(widgets) |->
        IF widgets[i].kind = "frame"
        THEN LET kids == update_widgets(widgets[i].vbox, adv, flt)
             IN  [widgets[i] EXCEPT !.vbox = kids,
                                    !.visible = FrameVisible(visible_count(kids))]
        ELSE UpdateLeaf(widgets[i], adv, flt)]

\* lines 91-93: the rows that end visible get show_all
VisibleRowIds(widgets) ==
    {Rows(widgets)[i].id : i \in {j \in 1..Len(Rows(widgets)) : Rows(widgets)[j].visible}}

(***************************************************************************)
(* Option descriptors.  A field that may be a callable carries how it is   *)
(* given: "absent", a literal ("true", "false"), or a callable and what    *)
(* the call does ("call_true", "call_false", "call_raise").  "choices" is  *)
(* "absent", a "list" or a callable ("call", "call_raise").  has_label is  *)
(* false for a descriptor without a "label" entry; type "unknown" is a     *)
(* type WidgetGenerator.generate_widget raises on.                         *)
(***************************************************************************)
\* a variant that ignores the scope
ScopeExcludes_never(option, level) == FALSE

\* lines 165-167: the option does not apply to this configuration level
ScopeExcludes(option, level) == option.has_scope /\ level \notin option.scope

\* lines 172-173: calling the producer of "visible" raises
VisibleRaises(option) == option.visible = "call_raise"

\* lines 171-176: the option is skipped because it is not visible
NotVisible(option) == option.visible \in {"false", "call_false"}

\* lines 180-181 and 248: "condition" is given and resolves to false
ConditionUnmet(option) == option.condition \in {"false", "call_false"}

\* line 172: option["visible"] is callable
VisibleCallable(option) == option.visible \in {"call_true", "call_false", "call_raise"}

\* a variant that resolves the choices of no option
ChoicesResolved_never(option) == FALSE

\* line 178: the choices are callable and the type is not choice_with_search
ChoicesResolved(option) ==
    option.choices \in {"call", "call_raise"} /\ option.type # "choice_with_search"

\* line 179: calling the producer of "choices" raises
ChoicesRaises(option) == ChoicesResolved(option) /\ option.choices = "call_raise"

\* line 180: option["condition"] is callable
ConditionCallable(option) ==
    option.condition \in {"call_true", "call_false", "call_raise"}

\* line 181: calling the producer of "condition" raises
ConditionRaises(option) == option.condition = "call_raise"

\* option["choices"] as generate_widget receives it at line 193
ChoicesGiven(option) ==
    IF option.choices = "absent" THEN "absent"
    ELSE IF option.choices \in {"call", "call_raise"} /\ ~ChoicesResolved(option)
    THEN "producer"
    ELSE "plain"

\* line 193: the widget generator raises for this descriptor
GenerateRaises(option) == option.type = "unknown"

\* line 277: option["label"] raises KeyError
LabelRaises(option) == ~option.has_label

\* Python truthiness of option.get("section")
Truthy(section) == section \notin {None, ""}

(***************************************************************************)
(* The state of one pass of generate_widgets over the options: the         *)
(* children of the box, the controls, the registries, the section tracker  *)
(* (current_vbox = 0 is the box itself, otherwise the index of the frame   *)
(* in tree), the presenters evaluated, the producers called and the keys   *)
(* logged as failed.                                                       *)
(***************************************************************************)
Presenter(kind, id) == [kind |-> kind, of |-> id]

\* a call of the producer of one field of the option of a key
ProducerCall(key, field) == [key |-> key, field |-> field]

\* lines 171-173
ResolveVisible(st, option) ==
    IF VisibleCallable(option)
    THEN [st EXCEPT !.calls = Append(@, ProducerCall(option.option, "visible"))]
    ELSE st

\* lines 178-179
ResolveChoices(st, option) ==
    IF ChoicesResolved(option)
    THEN [st EXCEPT !.calls = Append(@, ProducerCall(option.option, "choices"))]
    ELSE st

\* lines 180-181
ResolveCondition(st, option) ==
    IF ConditionCallable(option)
    THEN [st EXCEPT !.calls = Append(@, ProducerCall(option.option, "condition"))]
    ELSE st

\* a variant that opens a frame for every option of a section
OpenSection_always(st, option) ==
    IF Truthy(option.section)
    THEN [st EXCEPT !.current_section = option.section,
                    !.tree = Append(@, SectionFrame(option.section)),
                    !.current_vbox = Len(st.tree) + 1]
    ELSE [st EXCEPT !.current_section = option.section,
                    !.current_vbox = 0]

\* lines 183-190
OpenSection(st, option) ==
    IF option.section # st.current_section
    THEN IF Truthy(option.section)
         THEN [st EXCEPT !.current_section = option.section,
                         !.tree = Append(@, SectionFrame(option.section)),
                         !.current_vbox = Len(st.tree) + 1]
         ELSE [st EXCEPT !.current_section = option.section,
                         !.current_vbox = 0]
    ELSE st

\* set_style_property (lines 341-347) adds a CSS provider for one property;
\* what the wrapper shows: a bold font weight, else an italic font style
Weight(c) ==
    IF c.font_weight = "bold" THEN "bold"
    ELSE IF c.font_style = "italic" THEN "italic"
    ELSE "plain"

\* lines 199-202: the style set on a new wrapper
RenderWeight(in_raw, value, default) ==
    IF in_raw THEN [font_weight |-> "bold", font_style |-> "unset"]
    ELSE IF value # default THEN [font_weight |-> "unset", font_style |-> "italic"]
    ELSE [font_weight |-> "unset", font_style |-> "unset"]

\* lines 222-224: a reset button of a key that is not in raw_config is hidden
\* and exempted from show_all
ResetHidden(in_raw) == ~in_raw

\* lines 232-236: the tooltip notes that a lower level modifies the option
TooltipNote(in_raw, value, default) == value # default /\ ~in_raw

\* lines 193-249: the wrapper and the reset button of one option
NewControl(option, value, raw) ==
    LET in_raw == option.option \in DOMAIN raw
        style == RenderWeight(in_raw, value, option.default)
    IN  [key |-> option.option,
         default |-> option.default,
         font_weight |-> style.font_weight,
         font_style |-> style.font_style,
         btn_visible |-> FALSE,
         btn_no_show_all |-> ResetHidden(in_raw),
         tooltip_note |-> TooltipNote(in_raw, value, option.default),
         sensitive |-> ~ConditionUnmet(option),
         choices_given |-> ChoicesGiven(option)]

\* lines 193-225: create the control, register wrapper and reset button
RegisterControl(st, option, cfg, raw) ==
    LET id == Len(st.ctrl) + 1
    IN  [st EXCEPT !.ctrl = Append(@, NewControl(option, Get(cfg, option.option), raw)),
                   !.wrappers = Put(@, option.option, id),
                   !.reset_buttons = Put(@, option.option, id),
                   !.built = @ \cup {id}]

\* lines 251-258: the warning presenter is evaluated, then registered
AttachWarning(st, id, option) ==
    IF option.warning
    THEN [st EXCEPT !.warning_boxes = AppendTo(@, option.option, Presenter("warning", id)),
                    !.evals = Append(@, Presenter("warning", id))]
    ELSE st

\* lines 260-270: the error presenter is evaluated and joins the error widgets
\* of the generator, which are all registered
AttachErrors(st, id, option) ==
    LET st1 == IF option.gen_errors
               THEN [st EXCEPT !.error_boxes =
                                  AppendTo(@, option.option, Presenter("gen_error", id))]
               ELSE st
    IN  IF option.error
        THEN [st1 EXCEPT !.error_boxes = AppendTo(@, option.option, Presenter("error", id)),
                         !.evals = Append(@, Presenter("error", id))]
        ELSE st1

\* line 279: current_vbox.pack_start(option_container)
PackRow(st, id, option) ==
    IF st.current_vbox = 0
    THEN [st EXCEPT !.tree = Append(@, RowWidget(id, option))]
    ELSE [st EXCEPT !.tree[st.current_vbox].vbox = Append(@, RowWidget(id, option))]

\* lines 280-281: the failure is logged with the key and the row is left out
LogFailure(st, option) == [st EXCEPT !.log = Append(@, option.option)]

\* lines 192-279: the row of an option whose fields are resolved
BuildRow(st1, option, cfg, raw) ==
    IF GenerateRaises(option) THEN LogFailure(st1, option)
    ELSE LET st2 == RegisterControl(st1, option, cfg, raw)
             id  == Len(st2.ctrl)
             st3 == AttachErrors(AttachWarning(st2, id, option), id, option)
         IN  IF LabelRaises(option) THEN LogFailure(st3, option)
             ELSE PackRow(st3, id, option)

\* lines 162-281: the body of the loop for one option
ProcessOption(st, option, level, cfg, raw) ==
    IF ScopeExcludes(option, level) THEN st
    ELSE LET sv == ResolveVisible(st, option)
         IN  IF VisibleRaises(option) THEN LogFailure(sv, option)
             ELSE IF NotVisible(option) THEN sv
             ELSE LET sh == ResolveChoices(sv, option)
                  IN  IF ChoicesRaises(option) THEN LogFailure(sh, option)
                      ELSE LET sc == ResolveCondition(sh, option)
                           IN  IF ConditionRaises(option) THEN LogFailure(sc, option)
                               ELSE BuildRow(OpenSection(sc, option), option, cfg, raw)

\* a variant in which the first failure ends the loop
RECURSIVE ProcessOptions_abort(_, _, _, _, _)
ProcessOptions_abort(st, opts, level, cfg, raw) ==
    IF opts = <<>> THEN st
    ELSE LET st1 == ProcessOption(st, Head(opts), level, cfg, raw)
         IN  IF Len(st1.log) > Len(st.log) THEN st1
             ELSE ProcessOptions_abort(st1, Tail(opts), level, cfg, raw)

\* line 161: the loop; an option that failed does not end it
RECURSIVE ProcessOptions(_, _, _, _, _)
ProcessOptions(st, opts, level, cfg, raw) ==
    IF opts = <<>> THEN st
    ELSE ProcessOptions(ProcessOption(st, Head(opts), level, cfg, raw),
                        Tail(opts), level, cfg, raw)

\* lines 156-158: the pass starts at the box with no section
StartPass(t, c, w, rb, wb, eb) ==
    [tree |-> t, ctrl |-> c, wrappers |-> w, reset_buttons |-> rb,
     warning_boxes |-> wb, error_boxes |-> eb,
     current_section |-> None, current_vbox |-> 0,
     evals |-> <<>>, calls |-> <<>>, built |-> {}, log |-> <<>>]

(***************************************************************************)
(* The forms explored: option lists drawn from a catalogue of descriptors  *)
(***************************************************************************)
BaseOption ==
    [option |-> "a", has_label |-> TRUE, label |-> <<"W", "i">>, help |-> <<>>,
     section |-> None, advanced |-> FALSE, has_scope |-> FALSE, scope |-> {},
     visible |-> "absent", condition |-> "absent", choices |-> "absent",
     type |-> "bool",
     warning |-> FALSE, error |-> FALSE, gen_errors |-> FALSE, default |-> None]

\* a choice of section G with a list of choices and a warning
OptA1 == [BaseOption EXCEPT !.section = "G", !.default = "v1", !.warning = TRUE,
                            !.type = "choice", !.choices = "list"]

\* an advanced choice outside any section with an error check, whose choices
\* and visibility are callables
OptA2 == [BaseOption EXCEPT !.advanced = TRUE, !.help = <<"z">>, !.error = TRUE,
                            !.visible = "call_true",
                            !.type = "choice", !.choices = "call"]

\* an advanced option of section G whose condition is unmet
OptB1 == [BaseOption EXCEPT !.option = "b", !.label = <<"z">>, !.help = <<"W", "i">>,
                            !.section = "G", !.default = "v1", !.advanced = TRUE,
                            !.condition = "call_false", !.gen_errors = TRUE]

\* an option of another configuration level
OptB2 == [BaseOption EXCEPT !.option = "b", !.has_scope = TRUE, !.scope = {"system"},
                            !.warning = TRUE]

\* an option that is not visible, with callable choices
OptB3 == [BaseOption EXCEPT !.option = "b", !.visible = "call_false", !.error = TRUE,
                            !.type = "choice", !.choices = "call"]

\* an option of section H whose widget cannot be generated
OptB4 == [BaseOption EXCEPT !.option = "b", !.type = "unknown", !.section = "H"]

\* a choice of section G whose "condition" producer raises
OptC4 == [BaseOption EXCEPT !.option = "c", !.section = "G", !.warning = TRUE,
                            !.condition = "call_raise",
                            !.type = "choice", !.choices = "call"]

\* a choice whose "choices" producer raises
OptA4 == [BaseOption EXCEPT !.section = "H", !.condition = "call_true",
                            !.type = "choice", !.choices = "call_raise"]

\* an option of section G without a label
OptC1 == [BaseOption EXCEPT !.option = "c", !.has_label = FALSE, !.section = "G",
                            !.warning = TRUE, !.error = TRUE]

\* an option whose "visible" producer raises
OptC2 == [BaseOption EXCEPT !.option = "c", !.visible = "call_raise"]

\* an advanced choice with search, with an empty section name and callable
\* choices
OptC3 == [BaseOption EXCEPT !.option = "c", !.section = "", !.advanced = TRUE,
                            !.label = <<"z", "W">>, !.has_scope = TRUE,
                            !.scope = {"game", "runner"},
                            !.type = "choice_with_search", !.choices = "call"]

\* an advanced option of section G with an error check
OptA3 == [BaseOption EXCEPT !.section = "G", !.advanced = TRUE, !.error = TRUE]

Catalogue ==
    <<OptA1, OptB1, OptC3, OptA2, OptB3, OptC1, OptA1, OptB2, OptC2, OptA3, OptB4,
      OptC4, OptA4>>

\* the option lists explored: the runs of at most MaxOptions consecutive
\* descriptors of the catalogue (their keys are distinct up to length 3)
Schemas ==
    {<<>>} \cup
    UNION {{SubSeq(Catalogue, i, i + n - 1) :
                n \in {m \in 1..MaxOptions : m <= 3 /\ i + m - 1 <= Len(Catalogue)}} :
           i \in 1..Len(Catalogue)}

\* runner.get_runner_options() of the runners explored
RunnerSchemas == { <<OptC3, OptA2>> }

\* sysoptions.system_options
system_options == <<OptA1, OptB2>>

\* sysoptions.with_runner_overrides(runner_slug): the system options as the
\* runner narrows and extends them
with_runner_overrides(slug) == <<OptB2, OptC3>>

\* the forms explored: the class of the box, the level it is built for, the
\* level of its LutrisConfig, the slug of the runner ("bogus" names no
\* runner) and the id of the game configuration
Contexts ==
    { [box |-> "GameBox", config_level |-> "game", level |-> "game",
       runner_slug |-> "wine", game_config_id |-> "g1"],
      [box |-> "GameBox", config_level |-> "game", level |-> "game",
       runner_slug |-> None, game_config_id |-> "g1"],
      [box |-> "RunnerBox", config_level |-> "game", level |-> "game",
       runner_slug |-> "wine", game_config_id |-> "g1"],
      [box |-> "RunnerBox", config_level |-> "runner", level |-> "runner",
       runner_slug |-> "wine", game_config_id |-> None],
      [box |-> "RunnerBox", config_level |-> "runner", level |-> "runner",
       runner_slug |-> "bogus", game_config_id |-> None],
      [box |-> "RunnerBox", config_level |-> "game", level |-> "game",
       runner_slug |-> "bogus", game_config_id |-> "g1"],
      [box |-> "SystemConfigBox", config_level |-> "game", level |-> "game",
       runner_slug |-> "wine", game_config_id |-> "g1"],
      [box |-> "SystemConfigBox", config_level |-> "runner", level |-> "runner",
       runner_slug |-> "wine", game_config_id |-> None],
      [box |-> "SystemConfigBox", config_level |-> "system", level |-> "system",
       runner_slug |-> None, game_config_id |-> None] }

\* the option lists the runner of a form may declare
SourceOptions(ctx) ==
    IF ctx.runner_slug # "wine" THEN {<<>>}
    ELSE IF ctx.box = "GameBox" THEN Schemas
    ELSE IF ctx.box = "RunnerBox" THEN RunnerSchemas
    ELSE {<<>>}

\* the values the levels below this one supply
AncestorChoices ==
    { [k \in {"a"} |-> "v2"],
      [k \in {"c"} |-> "v1"] }

\* the values set at this level when the form is built
RawChoices == {EmptyDict, [k \in {"a"} |-> "v1"]}

FilterChoices == { <<>>, <<"w", "I">> }

(***************************************************************************)
(* State                                                                   *)
(***************************************************************************)
VARIABLES
    box,                    \* the class of the form
    options,                \* self.options
    config_level,           \* self.config_level
    level,                  \* lutris_config.level
    runner_slug,            \* lutris_config.runner_slug, the runner of the game
    game_config_id,         \* lutris_config.game_config_id
    ancestor,               \* what the lower levels and the defaults supply
    show_advanced_setting,  \* settings.read_setting("show_advanced_options") == "True"
    raw_config,             \* self.raw_config
    config,                 \* self.config
    tree,                   \* self.get_children()
    ctrl,                   \* the wrapper and reset button of each generated option
    wrappers,               \* self.wrappers
    reset_buttons,          \* self.reset_buttons
    warning_boxes,          \* self.warning_boxes
    error_boxes,            \* self.error_boxes
    advanced_visibility,    \* self._advanced_visibility
    filter,                 \* self._filter
    renders,                \* calls of generate_widgets so far
    wine_cache_clears,      \* calls of clear_wine_version_cache so far
    ops,                    \* operations of the user so far
    last                    \* a probe: what the latest handler did

vars == <<box, options, config_level, level, runner_slug, game_config_id,
          ancestor, show_advanced_setting, raw_config,
          config, tree, ctrl, wrappers, reset_buttons, warning_boxes,
          error_boxes, advanced_visibility, filter, renders, wine_cache_clears,
          ops, last>>

inputs == <<box, options, config_level, level, runner_slug, game_config_id,
            ancestor, show_advanced_setting>>

\* one more operation of the user
UserOp == ops < MaxOps /\ ops' = ops + 1 /\ UNCHANGED <<renders, wine_cache_clears>>

registries == <<wrappers, reset_buttons, warning_boxes, error_boxes>>

(***************************************************************************)
(* LutrisConfig.update_cascaded_config: the merged values are those of the *)
(* lower levels overridden by the values set at this level                 *)
(***************************************************************************)
update_cascaded_config(anc, raw) ==
    [k \in (DOMAIN anc) \cup (DOMAIN raw) |->
        IF k \in DOMAIN raw THEN raw[k] ELSE anc[k]]

(***************************************************************************)
(* The probe                                                               *)
(***************************************************************************)
\* how often each presenter of a sequence occurs in it
CountsOf(seq) ==
    [p \in {seq[i] : i \in 1..Len(seq)} |->
        Cardinality({i \in 1..Len(seq) : seq[i] = p})]

NoEvals == CountsOf(<<>>)

Probe(op) ==
    [op |-> op, key |-> None, id |-> 0, evals |-> NoEvals, built |-> {},
     pre_value |-> None, pre_in_raw |-> FALSE, after_edit |-> FALSE,
     edit_pre_value |-> None, edit_pre_in_raw |-> FALSE, raised |-> FALSE,
     log |-> <<>>, trace |-> <<>>, calls |-> NoEvals]

(***************************************************************************)
(* The constructors of the three forms (lines 362-425)                     *)
(***************************************************************************)
\* import_runner(slug)(), and the runner of a game: None when the slug names
\* no runner
ImportRunner(slug) == IF slug = "wine" THEN slug ELSE None

\* lines 367-371: without a runner the options stay the empty list of line 32
GameBox_options(runner, game_options) ==
    IF runner # None THEN game_options ELSE <<>>

\* lines 382-387
RunnerBox_options(runner, runner_options) ==
    IF runner # None THEN runner_options ELSE <<>>

\* lines 409-412
SystemConfigBox_options(slug) ==
    IF slug # None THEN with_runner_overrides(slug) ELSE system_options

\* the texts of the top info boxes
SupersedesRunnerText == "supersede the base runner configuration"
SupersedesRunnerAndGlobalText ==
    "supersede the base runner configuration, which supersedes the global preferences"
SupersedesGlobalText == "supersede the global preferences"

\* generate_top_info_box (lines 99-118): a help box that is shown at once, and
\* a separator
generate_top_info_box(text) ==
    << [OtherWidget(text) EXCEPT !.visible = TRUE], OtherWidget("separator") >>

\* lines 389-392
RunnerBox_info(lutris_level) ==
    IF lutris_level = "game" THEN generate_top_info_box(SupersedesRunnerText)
    ELSE <<>>

\* lines 414-425
SystemConfigBox_info(config_id, slug) ==
    IF config_id # None /\ slug # None
    THEN generate_top_info_box(SupersedesRunnerAndGlobalText)
    ELSE IF slug # None THEN generate_top_info_box(SupersedesGlobalText)
    ELSE <<>>

\* self.options after the constructor of the class
BoxOptions(ctx, declared) ==
    IF ctx.box = "GameBox"
    THEN GameBox_options(ImportRunner(ctx.runner_slug), declared)
    ELSE IF ctx.box = "RunnerBox"
    THEN RunnerBox_options(ImportRunner(ctx.runner_slug), declared)
    ELSE SystemConfigBox_options(ctx.runner_slug)

\* the children of the box after the constructor of the class
BoxChildren(ctx) ==
    IF ctx.box = "RunnerBox" THEN RunnerBox_info(ctx.level)
    ELSE IF ctx.box = "SystemConfigBox"
    THEN SystemConfigBox_info(ctx.game_config_id, ctx.runner_slug)
    ELSE <<>>

(***************************************************************************)
(* __init__ (lines 30-45)                                                  *)
(***************************************************************************)
Init ==
    /\ \E ctx \in Contexts :
          /\ box = ctx.box
          /\ config_level = ctx.config_level
          /\ level = ctx.level
          /\ runner_slug = ctx.runner_slug
          /\ game_config_id = ctx.game_config_id
          /\ \E declared \in SourceOptions(ctx) : options = BoxOptions(ctx, declared)
          /\ tree = BoxChildren(ctx)
    /\ ancestor \in AncestorChoices
    /\ show_advanced_setting \in BOOLEAN
    /\ raw_config \in RawChoices
    /\ config = update_cascaded_config(ancestor, raw_config)
    /\ ctrl = <<>>
    /\ wrappers = EmptyDict
    /\ reset_buttons = EmptyDict
    /\ warning_boxes = EmptyDict
    /\ error_boxes = EmptyDict
    /\ advanced_visibility = FALSE
    /\ filter = <<>>
    /\ renders = 0
    /\ wine_cache_clears = 0
    /\ ops = 0
    /\ last = Probe("init")

(***************************************************************************)
(* update_option_visibility (lines 69-97) on the children and the buttons  *)
(***************************************************************************)
\* a variant that drops the children of the box that end hidden
update_option_visibility_prune(t, c, adv, flt) ==
    LET t1 == update_widgets(t, adv, flt)
    IN  [tree |-> SelectSeq(t1, LAMBDA w : w.visible),
         ctrl |-> ShowButtons(c, VisibleRowIds(t1))]

update_option_visibility(t, c, adv, flt) ==
    LET t1 == update_widgets(t, adv, flt)
    IN  [tree |-> t1, ctrl |-> ShowButtons(c, VisibleRowIds(t1))]

\* the advanced_visibility setter (lines 51-56)
set_advanced_visibility(value) ==
    LET r == update_option_visibility(tree, ctrl, value, filter)
    IN  /\ advanced_visibility' = value
        /\ tree' = r.tree
        /\ ctrl' = r.ctrl
        /\ last' = Probe("advanced")
        /\ UserOp
        /\ UNCHANGED <<inputs, raw_config, config, registries, filter>>

\* the filter setter (lines 62-67)
set_filter(value) ==
    LET r == update_option_visibility(tree, ctrl, advanced_visibility, value)
    IN  /\ filter' = value
        /\ tree' = r.tree
        /\ ctrl' = r.ctrl
        /\ last' = Probe("filter")
        /\ UserOp
        /\ UNCHANGED <<inputs, raw_config, config, registries, advanced_visibility>>

(***************************************************************************)
(* generate_widgets (lines 135-285)                                        *)
(***************************************************************************)
\* a variant that never takes the branch of the empty list
NoOptions_never(opts) == FALSE

\* line 137: "not self.options"
NoOptions(opts) == opts = <<>>

\* a variant in which no form clears the cache
RenderTrace_plain(class) == <<"ConfigBox.generate_widgets">>

\* the calls of generate_widgets of a class, in order: RunnerBox clears the
\* cache of wine versions and then calls the method of ConfigBox (lines
\* 394-398); the other classes inherit the method of ConfigBox
RenderTrace(class) ==
    IF class = "RunnerBox"
    THEN <<"clear_wine_version_cache", "ConfigBox.generate_widgets">>
    ELSE <<"ConfigBox.generate_widgets">>

\* lines 137-143: no options
generate_no_options ==
    LET t1 == Append(tree, OtherWidget("no_options"))
    IN  /\ tree' = show_all(t1)
        /\ ctrl' = ShowButtons(ctrl, ShowAllReached(t1))
        /\ last' = [Probe("render") EXCEPT !.trace = RenderTrace(box)]
        /\ UNCHANGED <<raw_config, config, registries, advanced_visibility, filter>>

\* lines 145-285
generate_options ==
    LET st == ProcessOptions(
                  StartPass(tree, ctrl, wrappers, reset_buttons,
                            warning_boxes, error_boxes),
                  options, config_level, config, raw_config)
        shown == show_all(st.tree)
        c1 == ShowButtons(st.ctrl, ShowAllReached(st.tree))
        r == update_option_visibility(shown, c1, show_advanced_setting, filter)
    IN  /\ tree' = r.tree
        /\ ctrl' = r.ctrl
        /\ wrappers' = st.wrappers
        /\ reset_buttons' = st.reset_buttons
        /\ warning_boxes' = st.warning_boxes
        /\ error_boxes' = st.error_boxes
        /\ advanced_visibility' = show_advanced_setting
        /\ last' = [Probe("render") EXCEPT !.trace = RenderTrace(box),
                                           !.evals = CountsOf(st.evals),
                                           !.calls = CountsOf(st.calls),
                                           !.built = st.built,
                                           !.log = st.log]
        /\ UNCHANGED <<raw_config, config, filter>>

generate_widgets ==
    /\ renders < MaxRenders
    /\ renders' = renders + 1
    /\ wine_cache_clears' =
           wine_cache_clears
           + Cardinality({i \in 1..Len(RenderTrace(box)) :
                             RenderTrace(box)[i] = "clear_wine_version_cache"})
    /\ IF NoOptions(options) THEN generate_no_options ELSE generate_options
    /\ UNCHANGED <<inputs, ops>>

(***************************************************************************)
(* update_warnings (lines 287-294): every registered box is evaluated      *)
(***************************************************************************)
RECURSIVE BoxesOf(_, _)
BoxesOf(boxes, keys) ==
    IF keys = {} THEN <<>>
    ELSE LET k == CHOOSE x \in keys : TRUE
         IN  boxes[k] \o BoxesOf(boxes, keys \ {k})

update_warnings(wb, eb) ==
    CountsOf(BoxesOf(wb, DOMAIN wb) \o BoxesOf(eb, DOMAIN eb))

(***************************************************************************)
(* on_option_changed (lines 296-309)                                       *)
(***************************************************************************)
\* lines 300-307: the registered reset button is shown, the wrapper made bold
EditControls(c, rb, w, k) ==
    [i \in 1..Len(c) |->
        [c[i] EXCEPT !.btn_visible = IF k \in DOMAIN rb /\ rb[k] = i THEN TRUE ELSE @,
                     !.font_weight = IF k \in DOMAIN w /\ w[k] = i THEN "bold" ELSE @]]

\* a variant that leaves the boxes as they are
EditEvals_none(wb, eb) == NoEvals

\* line 309
EditEvals(wb, eb) == update_warnings(wb, eb)

\* a variant that writes the value to raw_config only
EditConfig_skip(cfg, option_name, value) == cfg

\* line 299
EditConfig(cfg, option_name, value) == Put(cfg, option_name, value)

\* a widget of the option is on screen and can be changed
Editable(k) ==
    \E i \in 1..Len(Rows(tree)) :
        /\ Rows(tree)[i].key = k
        /\ Rows(tree)[i].visible
        /\ ctrl[Rows(tree)[i].id].sensitive

on_option_changed(option_name, value) ==
    /\ Editable(option_name)
    /\ UserOp
    /\ raw_config' = Put(raw_config, option_name, value)
    /\ config' = EditConfig(config, option_name, value)
    /\ ctrl' = EditControls(ctrl, reset_buttons, wrappers, option_name)
    /\ last' = [Probe("edit") EXCEPT !.key = option_name,
                                     !.pre_value = Get(config, option_name),
                                     !.pre_in_raw = option_name \in DOMAIN raw_config,
                                     !.evals = EditEvals(warning_boxes, error_boxes)]
    /\ UNCHANGED <<inputs, tree, registries, advanced_visibility, filter>>

(***************************************************************************)
(* on_reset_button_clicked (lines 323-339), for the button of one row      *)
(***************************************************************************)
\* lines 328-329: the clicked button is hidden, the bold weight is cleared
ResetControls(c, id) ==
    [c EXCEPT ![id].btn_visible = FALSE, ![id].font_weight = "normal"]

\* a variant that keeps the key
ResetRaw_keep(raw, option_key) == raw

\* line 330
ResetRaw(raw, option_key) == Pop(raw, option_key)

\* a variant without the early return
ResetRebuilds_always(current_value, reset_value) == TRUE

\* lines 334-335: the widget is regenerated only when the value changed
ResetRebuilds(current_value, reset_value) == current_value # reset_value

\* line 339
ResetEvals(wb, eb) == update_warnings(wb, eb)

\* the reset button of the row is on screen
Clickable(row) == row.visible /\ ctrl[row.id].btn_visible

on_reset_button_clicked(row) ==
    LET option_key == row.key
        raw1 == ResetRaw(raw_config, option_key)
        cfg1 == update_cascaded_config(ancestor, raw1)
        current_value == Get(config, option_key)
        reset_value == Get(cfg1, option_key)
        rebuild == ResetRebuilds(current_value, reset_value)
        probe == [Probe("reset") EXCEPT
                     !.key = option_key, !.id = row.id,
                     !.pre_value = current_value,
                     !.pre_in_raw = option_key \in DOMAIN raw_config,
                     !.after_edit = (last.op = "edit" /\ last.key = option_key),
                     !.edit_pre_value =
                         IF last.op = "edit" /\ last.key = option_key
                         THEN last.pre_value ELSE None,
                     !.edit_pre_in_raw =
                         (last.op = "edit" /\ last.key = option_key /\ last.pre_in_raw)]
    IN  /\ Clickable(row)
        /\ IF option_key \notin DOMAIN config
           THEN \* line 326 raises KeyError
                /\ last' = [probe EXCEPT !.raised = TRUE]
                /\ UNCHANGED <<raw_config, config, ctrl>>
           ELSE /\ raw_config' = raw1
                /\ config' = cfg1
                /\ ctrl' = ResetControls(ctrl, row.id)
                /\ last' = [probe EXCEPT
                               !.built = IF rebuild THEN {row.id} ELSE {},
                               !.evals = IF rebuild
                                         THEN ResetEvals(warning_boxes, error_boxes)
                                         ELSE NoEvals]
        /\ UserOp
        /\ UNCHANGED <<inputs, tree, registries, advanced_visibility, filter>>

(***************************************************************************)
(* The form in use                                                         *)
(***************************************************************************)
Next ==
    \/ generate_widgets
    \/ \E k \in Keys, v \in Vals : on_option_changed(k, v)
    \/ \E i \in 1..Len(Rows(tree)) : on_reset_button_clicked(Rows(tree)[i])
    \/ \E value \in BOOLEAN : set_advanced_visibility(value)
    \/ \E value \in FilterChoices : set_filter(value)

Spec == Init /\ [][Next]_vars

(***************************************************************************)
(* Vocabulary of the properties                                            *)
(***************************************************************************)
RowSet == {Rows(tree)[i] : i \in 1..Len(Rows(tree))}

FrameSet == {tree[i] : i \in {j \in 1..Len(tree) : tree[j].kind = "frame"}}

\* the weight the override state of a key calls for
ExpectedWeight(k, default) ==
    IF k \in DOMAIN raw_config THEN "bold"
    ELSE IF Get(config, k) # default THEN "italic"
    ELSE "plain"

\* the filter text occurs in the label or the help text, whatever the case
FilterMatches(flt, row) ==
    \/ flt = <<>>
    \/ Contains(lower(flt), lower(row.label))
    \/ Contains(lower(flt), lower(row.help))

\* the presenters registered under some key
Registered ==
    UNION {{warning_boxes[k][i] : i \in 1..Len(warning_boxes[k])} : k \in DOMAIN warning_boxes}
    \cup
    UNION {{error_boxes[k][i] : i \in 1..Len(error_boxes[k])} : k \in DOMAIN error_boxes}

\* how often the latest handler evaluated a presenter
Evaluated(p) == IF p \in DOMAIN last.evals THEN last.evals[p] ELSE 0

\* a pass evaluates once each presenter it creates from a warning or error tag
TagPresentersEvaluatedOnce ==
    last.op = "render" =>
        \A p \in Registered :
            p.of \in last.built /\ p.kind \in {"warning", "error"} => Evaluated(p) = 1

\* the descriptor is skipped: out of scope, or resolved not visible
Skipped(option) ==
    \/ option.has_scope /\ config_level \notin option.scope
    \/ option.visible \in {"false", "call_false"}

\* building the row of the descriptor raises: in the producer of "visible",
\* of "choices" (called unless the type is choice_with_search) or of
\* "condition", in the widget generator, or for want of a label
Fails(option) ==
    /\ ~Skipped(option)
    /\ \/ option.visible = "call_raise"
       \/ option.choices = "call_raise" /\ option.type # "choice_with_search"
       \/ option.condition = "call_raise"
       \/ option.type = "unknown"
       \/ ~option.has_label

Builds(option) == ~Skipped(option) /\ ~Fails(option)

\* the keys of the selected descriptors of the option list, in order
KeysWhere(Test(_)) ==
    LET sel == SelectSeq(options, Test)
    IN  [i \in 1..Len(sel) |-> sel[i].option]

\* two dictionaries agree on a key
SameEntry(d1, d2, k) ==
    /\ (k \in DOMAIN d1) = (k \in DOMAIN d2)
    /\ k \in DOMAIN d1 => d1[k] = d2[k]

Occurrences(k, seq) == Cardinality({i \in 1..Len(seq) : seq[i] = k})

\* the keys and weights of the visible rows, in display order
VisibleRowView(t, c) ==
    LET vis == SelectSeq(Rows(t), LAMBDA w : w.visible)
    IN  [i \in 1..Len(vis) |-> <<vis[i].key, Weight(c[vis[i].id])>>]

\* the descriptor reaches the section step of the loop: it is not skipped and
\* none of its producers raises
Processed(option) ==
    /\ ~Skipped(option)
    /\ option.visible # "call_raise"
    /\ ~(option.choices = "call_raise" /\ option.type # "choice_with_search")
    /\ option.condition # "call_raise"

\* the children of the box as groups and ungrouped rows
Shape(t) ==
    [i \in 1..Len(t) |->
        [kind |-> t[i].kind,
         section |-> IF t[i].kind = "frame" THEN t[i].section ELSE None,
         keys |-> IF t[i].kind = "frame" THEN RowKeys(t[i].vbox)
                  ELSE IF t[i].kind = "row" THEN <<t[i].key>> ELSE <<>>]]

\* the keys of the descriptors i..j of a list whose rows are built
BuiltKeys(opts, i, j) ==
    LET sel == SelectSeq(SubSeq(opts, i, j), Builds)
    IN  [n \in 1..Len(sel) |-> sel[n].option]

\* the last descriptor of the run of equal section values that starts at i
RunEnd(opts, i) ==
    CHOOSE j \in i..Len(opts) :
        /\ \A m \in i..j : opts[m].section = opts[i].section
        /\ j = Len(opts) \/ opts[j + 1].section # opts[i].section

\* the groups and ungrouped rows the runs of a list from i on call for: one
\* group for a run of a section name, one ungrouped row for each built
\* descriptor of a run without a section name
RECURSIVE ExpectedShape(_, _)
ExpectedShape(opts, i) ==
    IF i > Len(opts) THEN <<>>
    ELSE LET j == RunEnd(opts, i)
             keys == BuiltKeys(opts, i, j)
         IN  (IF opts[i].section \notin {None, ""}
              THEN <<[kind |-> "frame", section |-> opts[i].section, keys |-> keys]>>
              ELSE [n \in 1..Len(keys) |->
                       [kind |-> "row", section |-> None, keys |-> <<keys[n]>>]])
             \o ExpectedShape(opts, j + 1)

\* the form is of a game without a runner, or of a runner whose slug names
\* no runner
Unresolved == box \in {"GameBox", "RunnerBox"} /\ runner_slug \in {None, "bogus"}

\* the widget is the label of a form without options
IsPlaceholder(w) == w.kind = "other" /\ w.section = "no_options"

\* how often a handler called the producer of a field of the option of a key
CalledIn(calls, k, field) ==
    LET c == [key |-> k, field |-> field]
    IN  IF c \in DOMAIN calls THEN calls[c] ELSE 0

\* the field of the descriptor is a producer
IsProducer(option, field) ==
    IF field = "choices" THEN option.choices \in {"call", "call_raise"}
    ELSE IF field = "visible"
    THEN option.visible \in {"call_true", "call_false", "call_raise"}
    ELSE option.condition \in {"call_true", "call_false", "call_raise"}

\* the pass resolves the choices of the descriptor: it is not skipped, the
\* producer of "visible" does not raise, and the type is not choice_with_search
ResolvesChoices(option) ==
    /\ ~Skipped(option) /\ option.visible # "call_raise"
    /\ option.type # "choice_with_search"

\* the pass comes to the condition of the descriptor: it is not skipped and
\* the producers of "visible" and of "choices" do not raise
ComesToCondition(option) ==
    /\ ~Skipped(option) /\ option.visible # "call_raise"
    /\ ~(option.choices = "call_raise" /\ option.type # "choice_with_search")

\* the descriptor is out of scope at the level of the form
OutOfScope(option) == option.has_scope /\ config_level \notin option.scope

\* the controls a pass built for a descriptor
BuiltFor(option, c, built) == {id \in built : c[id].key = option.option}

\* the controls of the rows in display order
RowIds(t) == [i \in 1..Len(Rows(t)) |-> Rows(t)[i].id]

\* the weight and the enabled state of every control
Styles(c) == [i \in 1..Len(c) |-> <<Weight(c[i]), c[i].sensitive>>]

(***************************************************************************)
(* C1: after one render and any edits and resets, the wrapper of every     *)
(* row is bold when its key is in raw_config, italic when it is not and    *)
(* the value differs from the default, and plain otherwise.                *)
(***************************************************************************)
C1_WeightFollowsOverride ==
    renders = 1 =>
        \A row \in RowSet :
            Weight(ctrl[row.id]) = ExpectedWeight(row.key, ctrl[row.id].default)

(***************************************************************************)
(* C2: after one render and any edits, resets and visibility changes, the  *)
(* reset button of a row is hidden whenever its key is not in raw_config,  *)
(* and an edit shows the button of the visible row of the edited key.      *)
(***************************************************************************)
C2_ResetHiddenUnlessOverridden ==
    renders = 1 =>
        /\ \A row \in RowSet :
               row.key \notin DOMAIN raw_config => ~ctrl[row.id].btn_visible
        /\ last.op = "edit" =>
               \A row \in RowSet :
                   row.key = last.key /\ row.visible => ctrl[row.id].btn_visible

(***************************************************************************)
(* C3 as stated: a reset that directly follows an edit of the same key     *)
(* leaves config[k] at its value before the edit and k out of raw_config,  *)
(* whether or not k was in raw_config before the edit.                     *)
(***************************************************************************)
C3_EditResetRestores ==
    last.op = "reset" /\ last.after_edit =>
        /\ Get(config, last.key) = last.edit_pre_value
        /\ last.key \notin DOMAIN raw_config

(***************************************************************************)
(* C3 amended: a reset that directly follows an edit of the same key       *)
(* leaves k out of raw_config, and leaves config[k] at its value before    *)
(* the edit when k was not in raw_config before the edit.                  *)
(***************************************************************************)
C3_EditResetRestoresUnset ==
    last.op = "reset" /\ last.after_edit =>
        /\ last.key \notin DOMAIN raw_config
        /\ ~last.edit_pre_in_raw => Get(config, last.key) = last.edit_pre_value

C3_Witness ==
    /\ last.op = "reset" /\ last.after_edit /\ ~last.edit_pre_in_raw
    /\ last.edit_pre_value # None
    /\ Get(config, last.key) = last.edit_pre_value

(***************************************************************************)
(* C4: a second generate_widgets directly after the first shows the same   *)
(* visible rows, each once, with the same weights.                         *)
(***************************************************************************)
C4_RenderIdempotent ==
    [][last.op = "render" /\ last'.op = "render" =>
          VisibleRowView(tree', ctrl') = VisibleRowView(tree, ctrl)]_vars

(***************************************************************************)
(* C5: every option row is visible exactly when it is not advanced or      *)
(* advanced options are shown, and the filter is empty or occurs, case     *)
(* insensitively, in its label or help text.                               *)
(***************************************************************************)
C5_LeafVisibility ==
    \A row \in RowSet :
        row.visible <=>
            /\ advanced_visibility \/ ~row.advanced
            /\ FilterMatches(filter, row)

C5_Witness ==
    /\ last.op = "filter" /\ filter # <<>> /\ ~advanced_visibility
    /\ \E row \in RowSet : row.advanced /\ FilterMatches(filter, row) /\ ~row.visible
    /\ \E row \in RowSet : row.visible /\ row.label # lower(row.label)

(***************************************************************************)
(* C6: a section frame is visible exactly when one of its rows is; a       *)
(* frame without a visible row, or without rows, is hidden.                *)
(***************************************************************************)
C6_SectionVisibility ==
    \A frame \in FrameSet :
        frame.visible <=> \E i \in 1..Len(frame.vbox) : frame.vbox[i].visible

C6_Witness ==
    /\ \E frame \in FrameSet : frame.vbox = <<>> /\ ~frame.visible
    /\ \E frame \in FrameSet : frame.vbox # <<>> /\ ~frame.visible
    /\ \E row \in RowSet : FilterMatches(filter, row) /\ ~row.visible
    /\ filter # <<>>

(***************************************************************************)
(* C7 as stated: every registered presenter is evaluated by every edit and *)
(* by every reset, and a render evaluates once each presenter it creates   *)
(* from a warning or error tag.                                            *)
(***************************************************************************)
C7_ReevaluatedAfterEveryEditAndReset ==
    /\ last.op = "edit" \/ (last.op = "reset" /\ ~last.raised) =>
           \A p \in Registered : Evaluated(p) >= 1
    /\ TagPresentersEvaluatedOnce

(***************************************************************************)
(* C7 amended: every registered presenter is evaluated once by every edit  *)
(* and by every reset that changes the value of its key; a reset that      *)
(* leaves the value as it was evaluates none; a render evaluates once each *)
(* presenter it creates from a warning or error tag.                       *)
(***************************************************************************)
C7_ReevaluatedAfterChange ==
    /\ last.op = "edit" => \A p \in Registered : Evaluated(p) = 1
    /\ last.op = "reset" /\ ~last.raised =>
           IF Get(config, last.key) # last.pre_value
           THEN \A p \in Registered : Evaluated(p) = 1
           ELSE \A p \in Registered : Evaluated(p) = 0
    /\ TagPresentersEvaluatedOnce

C7_Witness ==
    /\ last.op = "reset" /\ ~last.raised
    /\ Get(config, last.key) # last.pre_value
    /\ Registered # {}
    /\ \A p \in Registered : Evaluated(p) = 1

(***************************************************************************)
(* C8: a reset regenerates the widget of its own row exactly when the      *)
(* recomputed value differs from the value before the reset; it            *)
(* regenerates no other widget and leaves the children of the box as they  *)
(* were.                                                                   *)
(***************************************************************************)
C8_ResetRebuildsOnlyOnChange ==
    [][last'.op = "reset" =>
          /\ last'.built = IF Get(config', last'.key) # Get(config, last'.key)
                           THEN {last'.id} ELSE {}
          /\ tree' = tree
          /\ <<wrappers', reset_buttons'>> = <<wrappers, reset_buttons>>
          /\ Len(ctrl') = Len(ctrl)]_vars

C8_Witness ==
    /\ last.op = "reset" /\ ~last.raised
    /\ last.pre_in_raw
    /\ Get(config, last.key) = last.pre_value
    /\ last.built = {}

(***************************************************************************)
(* C9: a row that fails to build does not end the pass: the pass adds the  *)
(* rows of exactly the descriptors that are neither skipped nor failing,   *)
(* in order, logs the failing keys, and ends with the visibility applied.  *)
(***************************************************************************)
C9_FailureIsolation ==
    [][last'.op = "render" /\ options # <<>> =>
          /\ RowKeys(tree') = RowKeys(tree) \o KeysWhere(Builds)
          /\ last'.log = KeysWhere(Fails)
          /\ advanced_visibility' = show_advanced_setting
          /\ \A i \in 1..Len(Rows(tree')) :
                 Rows(tree')[i].visible <=>
                     /\ show_advanced_setting \/ ~Rows(tree')[i].advanced
                     /\ FilterMatches(filter, Rows(tree')[i])]_vars

C9_Witness ==
    /\ last.op = "render" /\ renders = 1
    /\ \E i, j \in 1..Len(options) : i < j /\ Fails(options[i]) /\ Builds(options[j])
    /\ RowKeys(tree) = KeysWhere(Builds)
    /\ last.log # <<>>

(***************************************************************************)
(* C10: a pass adds no row and registers nothing for a descriptor that is  *)
(* out of scope or not visible, and adds exactly one row for a descriptor  *)
(* that is neither skipped nor failing.                                    *)
(***************************************************************************)
C10_SkippedLeaveNothing ==
    [][last'.op = "render" =>
          \A i \in 1..Len(options) :
              LET k == options[i].option
              IN  /\ Skipped(options[i]) =>
                         /\ Occurrences(k, RowKeys(tree')) = Occurrences(k, RowKeys(tree))
                         /\ SameEntry(wrappers', wrappers, k)
                         /\ SameEntry(reset_buttons', reset_buttons, k)
                         /\ SameEntry(warning_boxes', warning_boxes, k)
                         /\ SameEntry(error_boxes', error_boxes, k)
                  /\ Builds(options[i]) =>
                         Occurrences(k, RowKeys(tree')) = Occurrences(k, RowKeys(tree)) + 1]_vars

C10_Witness ==
    /\ last.op = "render" /\ renders = 1
    /\ \E i, j \in 1..Len(options) : Skipped(options[i]) /\ Builds(options[j])
    /\ \A i \in 1..Len(options) :
           Skipped(options[i]) =>
               options[i].option \notin
                   (DOMAIN wrappers \cup DOMAIN reset_buttons
                    \cup DOMAIN warning_boxes \cup DOMAIN error_boxes)

(***************************************************************************)
(* C11: a pass over a list of options adds, after the children the box     *)
(* already has, one group for every maximal run of consecutive processed   *)
(* descriptors with the same section name, holding the rows built for the  *)
(* run in order, and one ungrouped row at the root for every built         *)
(* descriptor without a section name, all in descriptor order.             *)
(***************************************************************************)
C11_SectionGrouping ==
    [][last'.op = "render" /\ options # <<>> =>
          /\ Len(tree') >= Len(tree)
          /\ Shape(SubSeq(tree', 1, Len(tree))) = Shape(tree)
          /\ Shape(SubSeq(tree', Len(tree) + 1, Len(tree')))
                 = ExpectedShape(SelectSeq(options, Processed), 1)]_vars

C11_Witness ==
    /\ last.op = "render" /\ renders = 1
    /\ \E i \in 1..(Len(tree) - 1) :
           /\ tree[i].kind = "frame" /\ Len(tree[i].vbox) = 2
           /\ tree[i + 1].kind = "row"
    /\ Len(options) = 3
    /\ options[1].section = options[2].section
    /\ options[3].section \in {None, ""}

(***************************************************************************)
(* C12: the show_advanced_options setting is read at the first pass only:  *)
(* a later pass leaves advanced_visibility and filter at the values they   *)
(* had, so a value given to either setter survives a following pass.       *)
(***************************************************************************)
C12_SettingReadAtFirstRenderOnly ==
    [][last'.op = "render" /\ renders >= 1 =>
          /\ advanced_visibility' = advanced_visibility
          /\ filter' = filter]_vars

(***************************************************************************)
(* C13: after a render and any edits and resets, every key of raw_config   *)
(* is a key of config.                                                     *)
(***************************************************************************)
C13_RawKeysWithinEffective ==
    renders >= 1 => DOMAIN raw_config \subseteq DOMAIN config

C13_Witness ==
    /\ renders >= 1
    /\ last.op = "reset" /\ ~last.raised /\ last.after_edit
    /\ raw_config # EmptyDict
    /\ last.key \notin DOMAIN config
    /\ DOMAIN raw_config \subseteq DOMAIN config

(***************************************************************************)
(* C14: a GameBox of a game without a runner and a RunnerBox of an invalid *)
(* runner slug have no options; a pass over an empty option list adds one  *)
(* visible "no options" label after the children the box has, and leaves   *)
(* no option row, no control, no registered wrapper, reset button, warning *)
(* or error box, and nothing logged or raised.                             *)
(***************************************************************************)
C14_EmptySchemaPlaceholder ==
    /\ [](Unresolved => options = <<>>)
    /\ [][last'.op = "render" /\ options = <<>> =>
             /\ Len(tree') = Len(tree) + 1
             /\ Shape(SubSeq(tree', 1, Len(tree))) = Shape(tree)
             /\ IsPlaceholder(tree'[Len(tree')]) /\ tree'[Len(tree')].visible
             /\ Rows(tree') = <<>>
             /\ Len(ctrl') = 0
             /\ DOMAIN wrappers' = {} /\ DOMAIN reset_buttons' = {}
             /\ DOMAIN warning_boxes' = {} /\ DOMAIN error_boxes' = {}
             /\ last'.log = <<>> /\ ~last'.raised]_vars

C14_Witness ==
    /\ Unresolved /\ box = "RunnerBox" /\ options = <<>>
    /\ last.op = "render" /\ renders = 1
    /\ Cardinality({i \in 1..Len(tree) : IsPlaceholder(tree[i])}) = 1
    /\ Rows(tree) = <<>> /\ DOMAIN wrappers = {}

(***************************************************************************)
(* C15: the first child of a SystemConfigBox is always an info box, with   *)
(* the wording of a game-level override when the game configuration id and *)
(* the runner are given, of a runner-level override when only the runner   *)
(* is given, and a third wording of its own when no runner is given.       *)
(***************************************************************************)
C15_SystemBannerAlways ==
    box = "SystemConfigBox" =>
        /\ Len(tree) >= 1
        /\ tree[1].kind = "other"
        /\ tree[1].section \notin {"no_options", "separator"}
        /\ IF game_config_id # None /\ runner_slug # None
           THEN tree[1].section = SupersedesRunnerAndGlobalText
           ELSE IF runner_slug # None
           THEN tree[1].section = SupersedesGlobalText
           ELSE tree[1].section \notin {SupersedesRunnerAndGlobalText, SupersedesGlobalText}

(***************************************************************************)
(* C16: every generate_widgets of a RunnerBox, whether or not it has       *)
(* options, calls clear_wine_version_cache once, and calls it before the   *)
(* generate_widgets of ConfigBox reads the options.                        *)
(***************************************************************************)
C16_CacheClearedBeforeRender ==
    [][last'.op = "render" /\ box = "RunnerBox" =>
          /\ wine_cache_clears' = wine_cache_clears + 1
          /\ last'.trace = <<"clear_wine_version_cache", "ConfigBox.generate_widgets">>]_vars

C16_Witness ==
    /\ box = "RunnerBox" /\ options = <<>>
    /\ last.op = "render" /\ renders = 2
    /\ wine_cache_clears = 2
    /\ last.trace[1] = "clear_wine_version_cache"

(***************************************************************************)
(* C17 as stated: in a pass, for an option of any type, every producer of  *)
(* a visible, choices or condition field of a descriptor that reaches the  *)
(* widget generator is called exactly once and the generator receives      *)
(* plain choices; the option list is left as it was; a reset calls no      *)
(* producer and leaves what the generator was given as it was.             *)
(***************************************************************************)
C17_ProducersResolvedOnceAnyType ==
    [][/\ last'.op = "render" /\ options # <<>> =>
             /\ options' = options
             /\ \A i \in 1..Len(options) :
                    /\ Processed(options[i]) =>
                           \A field \in {"visible", "choices", "condition"} :
                               IsProducer(options[i], field) =>
                                   CalledIn(last'.calls, options[i].option, field) = 1
                    /\ \A id \in BuiltFor(options[i], ctrl', last'.built) :
                           ctrl'[id].choices_given # "producer"
       /\ last'.op = "reset" =>
             /\ options' = options
             /\ DOMAIN last'.calls = {}
             /\ \A id \in 1..Len(ctrl) :
                    ctrl'[id].choices_given = ctrl[id].choices_given]_vars

(***************************************************************************)
(* C17 amended: in a pass, the producer of visible is called exactly once  *)
(* for every descriptor in scope, and the producers of choices and of      *)
(* condition exactly once, in that order, for every descriptor the pass    *)
(* does not skip and whose earlier producers did not raise, except the     *)
(* choices of an option of type choice_with_search: that producer is not   *)
(* called and the generator receives it as it is.  No producer is called   *)
(* otherwise; the option list is left as it was; a reset calls no producer *)
(* and leaves what the generator was given as it was.                      *)
(***************************************************************************)
C17_ProducersResolvedOnceButSearch ==
    [][/\ last'.op = "render" /\ options # <<>> =>
             /\ options' = options
             /\ \A i \in 1..Len(options) :
                    LET o == options[i]
                        searched == o.type = "choice_with_search"
                    IN  /\ CalledIn(last'.calls, o.option, "visible") =
                               IF ~OutOfScope(o) /\ IsProducer(o, "visible")
                               THEN 1 ELSE 0
                        /\ CalledIn(last'.calls, o.option, "condition") =
                               IF ComesToCondition(o) /\ IsProducer(o, "condition")
                               THEN 1 ELSE 0
                        /\ CalledIn(last'.calls, o.option, "choices") =
                               IF ResolvesChoices(o) /\ IsProducer(o, "choices")
                               THEN 1 ELSE 0
                        /\ \A id \in BuiltFor(o, ctrl', last'.built) :
                               ctrl'[id].choices_given = "producer"
                                   <=> IsProducer(o, "choices") /\ searched
       /\ last'.op = "reset" =>
             /\ options' = options
             /\ DOMAIN last'.calls = {}
             /\ \A id \in 1..Len(ctrl) :
                    ctrl'[id].choices_given = ctrl[id].choices_given]_vars

C17_Witness ==
    /\ last.op = "render" /\ renders = 1
    /\ \E i, j \in 1..Len(options) :
           /\ Processed(options[i])
           /\ IsProducer(options[i], "visible") /\ IsProducer(options[i], "choices")
           /\ options[i].type # "choice_with_search"
           /\ CalledIn(last.calls, options[i].option, "visible") = 1
           /\ CalledIn(last.calls, options[i].option, "choices") = 1
           /\ Processed(options[j])
           /\ IsProducer(options[j], "choices")
           /\ options[j].type = "choice_with_search"
           /\ CalledIn(last.calls, options[j].option, "choices") = 0
           /\ \E id \in BuiltFor(options[j], ctrl, last.built) :
                  ctrl[id].choices_given = "producer"

(***************************************************************************)
(* C18: setting advanced_visibility or filter recomputes the visibility of *)
(* every row and frame of the existing tree from the new settings, and     *)
(* leaves raw_config, config, the rows and frames and their order, the     *)
(* weight and enabled state of every control and the registries as they    *)
(* were; no control is built.                                              *)
(***************************************************************************)
C18_SettersChangeVisibilityOnly ==
    [][last'.op \in {"advanced", "filter"} =>
          /\ raw_config' = raw_config /\ config' = config
          /\ Shape(tree') = Shape(tree)
          /\ RowIds(tree') = RowIds(tree)
          /\ Styles(ctrl') = Styles(ctrl)
          /\ <<wrappers', reset_buttons', warning_boxes', error_boxes'>>
                 = <<wrappers, reset_buttons, warning_boxes, error_boxes>>
          /\ last'.built = {} /\ DOMAIN last'.evals = {}
          /\ \A i \in 1..Len(Rows(tree')) :
                 Rows(tree')[i].visible <=>
                     /\ advanced_visibility' \/ ~Rows(tree')[i].advanced
                     /\ FilterMatches(filter', Rows(tree')[i])
          /\ \A i \in 1..Len(tree') :
                 tree'[i].kind = "frame" =>
                     (tree'[i].visible <=>
                          \E j \in 1..Len(tree'[i].vbox) : tree'[i].vbox[j].visible)]_vars

C18_Witness ==
    /\ last.op = "filter" /\ filter # <<>>
    /\ \E row \in RowSet : ~row.visible /\ ~FilterMatches(filter, row)
    /\ \E row \in RowSet : row.visible /\ Weight(ctrl[row.id]) = "bold"
    /\ \E frame \in FrameSet : frame.visible
    /\ raw_config # EmptyDict /\ Registered # {}

(***************************************************************************)
(* C19: after a render, every key with an entry in wrappers,               *)
(* reset_buttons, warning_boxes or error_boxes has a row among the         *)
(* children of the box, so a descriptor whose row was left out because its *)
(* build failed has no entry in any of them.                               *)
(***************************************************************************)
C19_RegisteredKeysHaveRows ==
    renders >= 1 =>
        \A k \in DOMAIN wrappers \cup DOMAIN reset_buttons
                  \cup DOMAIN warning_boxes \cup DOMAIN error_boxes :
            \E row \in RowSet : row.key = k

(***************************************************************************)
(* C20: after one render and any edits and resets, the tooltip of every    *)
(* row carries the note about a lower configuration level exactly when its *)
(* key is not in raw_config and its value in config differs from the       *)
(* default.                                                                *)
(***************************************************************************)
C20_TooltipNoteFollowsOverride ==
    renders = 1 =>
        \A row \in RowSet :
            ctrl[row.id].tooltip_note <=>
                /\ row.key \notin DOMAIN raw_config
                /\ Get(config, row.key) # ctrl[row.id].default

====
